---- MODULE Spec2Model ----
(***************************************************************************)
(* Model of the POST /generate-image relay of src/index.js: the rate       *)
(* limiter middleware, the prompt validation, the moderation call and its  *)
(* parser, and the image-generation call and its relay of the upstream     *)
(* answer.  index.js holds two revisions of the route (lines 1-137, the    *)
(* logging one, and lines 138-264, the plain one); `revision` says which   *)
(* one is deployed, and each revision has its own definitions.             *)
(***************************************************************************)
EXTENDS Integers, Sequences, FiniteSets, TLC

----------------------------------------------------------------------------
(* Bounds of the model *)

MaxRequests == 2

Requests == 1..MaxRequests

\* The client addresses, in the order in which they first show up
ClientOrder == <<"10.0.0.1", "10.0.0.2">>
Clients == {ClientOrder[i] : i \in 1..Len(ClientOrder)}

----------------------------------------------------------------------------
(* Program constants *)

windowMs == 1000
max == 1
RateLimitMessage == "Rate limit exceeded. Only one image per second allowed."
InvalidPromptMessage == "Missing or invalid 'prompt' in request body."
ModerationFailedMessage == "Content moderation failed. Please try again later."
GenericGenerationMessage == "Error generating image."
InternalErrorMessage == "Internal Server Error"
PlaceholderUrl == "/nonono.gif"

----------------------------------------------------------------------------
(* JavaScript values.  A value is a record [t, s, n]: its typeof-like tag, *)
(* its characters when it is a string, its number when it is a number.     *)

Undefined == [t |-> "undefined", s |-> "", n |-> 0]
Null == [t |-> "null", s |-> "", n |-> 0]
Str(x) == [t |-> "string", s |-> x, n |-> 0]
Num(k) == [t |-> "number", s |-> "", n |-> k]
Obj(x) == [t |-> "object", s |-> x, n |-> 0]

\* JavaScript truthiness (the `!x` and `if (x)` tests of the handler)
Truthy(v) ==
    CASE v.t = "undefined" -> FALSE
      [] v.t = "null" -> FALSE
      [] v.t = "string" -> v.s # ""
      [] v.t = "number" -> v.n # 0
      [] OTHER -> TRUE

TypeOf(v) == IF v.t = "null" THEN "object" ELSE v.t

(* Texts that the handler trims and lower-cases are sequences of           *)
(* characters: [t, cs].                                                    *)

NoText == [t |-> "undefined", cs |-> <<>>]
NullText == [t |-> "null", cs |-> <<>>]
Text(cs) == [t |-> "string", cs |-> cs]
NumberText == [t |-> "number", cs |-> <<>>]

TruthyText(v) ==
    CASE v.t = "undefined" -> FALSE
      [] v.t = "null" -> FALSE
      [] v.t = "string" -> v.cs # <<>>
      [] OTHER -> TRUE

WhiteSpace == {" ", "\n", "\t", "\r"}

UpperCase == <<"A","B","C","D","E","F","G","H","I","J","K","L","M",
               "N","O","P","Q","R","S","T","U","V","W","X","Y","Z">>
LowerCase == <<"a","b","c","d","e","f","g","h","i","j","k","l","m",
               "n","o","p","q","r","s","t","u","v","w","x","y","z">>

RECURSIVE trimStart(_)
trimStart(cs) ==
    IF cs # <<>> /\ Head(cs) \in WhiteSpace THEN trimStart(Tail(cs)) ELSE cs

RECURSIVE trimEnd(_)
trimEnd(cs) ==
    IF cs # <<>> /\ cs[Len(cs)] \in WhiteSpace
    THEN trimEnd(SubSeq(cs, 1, Len(cs) - 1))
    ELSE cs

\* String.prototype.trim
trim(cs) == trimEnd(trimStart(cs))

\* the lower-case letter of each upper-case letter
LowerOf ==
    [c \in {UpperCase[i] : i \in 1..Len(UpperCase)} |->
        LowerCase[CHOOSE i \in 1..Len(UpperCase) : UpperCase[i] = c]]

toLowerChar(c) == IF c \in DOMAIN LowerOf THEN LowerOf[c] ELSE c

\* toLowerCase left out
toLowerCase_Skipped(cs) == cs

\* String.prototype.toLowerCase
toLowerCase(cs) == [i \in 1..Len(cs) |-> toLowerChar(cs[i])]

----------------------------------------------------------------------------
(* Responses.  A body is what res.json / res.send put on the wire: a JSON  *)
(* object with the fields `error` and `url` (Undefined when the field is   *)
(* not there), or a plain text.                                            *)

NoBody == [kind |-> "none", error |-> Undefined, url |-> Undefined, text |-> ""]
ErrorBody(v) == [kind |-> "json", error |-> v, url |-> Undefined, text |-> ""]
UrlBody(v) == [kind |-> "json", error |-> Undefined, url |-> v, text |-> ""]
TextBody(x) == [kind |-> "text", error |-> Undefined, url |-> Undefined, text |-> x]

----------------------------------------------------------------------------
(* The rate limiter: rateLimit({windowMs: 1000, max: 1, message}).  The    *)
(* middleware counts the hit of the request's client and answers 429 with  *)
(* the message, sent as it is (a string), when the count exceeds max.      *)

\* the comparison off by one
limiterBlocks_OffByOne(totalHits) == totalHits > max + 1

limiterBlocks(totalHits) == totalHits > max

----------------------------------------------------------------------------
(* Prompt validation *)

\* the type test alone, without the falsy test
InvalidPrompt1_TypeOnly(prompt) == TypeOf(prompt) # "string"

\* first revision:  if (!prompt || typeof prompt !== "string")
InvalidPrompt1(prompt) == ~Truthy(prompt) \/ TypeOf(prompt) # "string"

\* second revision
InvalidPrompt2(prompt) == ~Truthy(prompt) \/ TypeOf(prompt) # "string"

----------------------------------------------------------------------------
(* Moderation.  A moderation response is what                              *)
(* moderator.chat.completions.create settles with: threw (the call         *)
(* rejects), or an object with the fields `result` and `choices`; a choice *)
(* stands for its message.content.                                         *)

NoChoices == [t |-> "undefined", items |-> <<>>]
ChoiceList(items) == [t |-> "array", items |-> items]
NonArrayChoices == [t |-> "object", items |-> <<>>]

ModThrew == [threw |-> TRUE, result |-> NoText, choices |-> NoChoices]
ModResult(cs) == [threw |-> FALSE, result |-> Text(cs), choices |-> NoChoices]
ModChoices(items) == [threw |-> FALSE, result |-> NoText, choices |-> ChoiceList(items)]
ModNeither == [threw |-> FALSE, result |-> NoText, choices |-> NoChoices]

NoAnswer == [set |-> FALSE, text |-> <<>>]
Answer(cs) == [set |-> TRUE, text |-> cs]

\* x.trim().toLowerCase(): a TypeError unless x is a string
TrimLower(v) ==
    IF v.t = "string"
    THEN [threw |-> FALSE, text |-> toLowerCase(trim(v.cs))]
    ELSE [threw |-> TRUE, text |-> <<>>]

Threw == [threw |-> TRUE, text |-> <<>>]

\* first revision: "Determine the moderator's answer."
moderationAnswer1(modResponse) ==
    IF TruthyText(modResponse.result)
    THEN TrimLower(modResponse.result)
    ELSE IF modResponse.choices.t # "undefined" /\ modResponse.choices.t = "array"
         THEN IF Len(modResponse.choices.items) >= 1
              THEN TrimLower(modResponse.choices.items[1])
              ELSE Threw
         ELSE Threw

\* the second revision lower-cases without trimming
moderationAnswer2_NoTrim(modResponse) ==
    IF TruthyText(modResponse.result)
    THEN IF modResponse.result.t = "string"
         THEN [threw |-> FALSE, text |-> toLowerCase(modResponse.result.cs)]
         ELSE Threw
    ELSE IF modResponse.choices.t # "undefined" /\ modResponse.choices.t = "array"
         THEN IF Len(modResponse.choices.items) >= 1
              THEN TrimLower(modResponse.choices.items[1])
              ELSE Threw
         ELSE Threw

\* second revision
moderationAnswer2(modResponse) ==
    IF TruthyText(modResponse.result)
    THEN TrimLower(modResponse.result)
    ELSE IF modResponse.choices.t # "undefined" /\ modResponse.choices.t = "array"
         THEN IF Len(modResponse.choices.items) >= 1
              THEN TrimLower(modResponse.choices.items[1])
              ELSE Threw
         ELSE Threw

(* The outcome of the moderation try/catch once the call has settled:      *)
(* next = "respond" with a status and a body, or next = "generate".        *)

Respond(status, body, answer) ==
    [next |-> "respond", status |-> status, body |-> body, answer |-> answer]
Proceed(answer) ==
    [next |-> "generate", status |-> 0, body |-> NoBody, answer |-> answer]

\* the rejection carries a field that the generated answer has not
ModerationStep1_MarkedPlaceholder(modResponse) ==
    LET a == moderationAnswer1(modResponse) IN
    IF modResponse.threw \/ a.threw
    THEN Respond(500, ErrorBody(Str(ModerationFailedMessage)), NoAnswer)
    ELSE IF a.text = <<"n", "o">>
         THEN Respond(200, [kind |-> "json", error |-> Str("Content rejected."),
                            url |-> Str(PlaceholderUrl), text |-> ""],
                      Answer(a.text))
         ELSE Proceed(Answer(a.text))

\* the catch block logs and falls through to the image generation
ModerationStep1_CatchFallsThrough(modResponse) ==
    LET a == moderationAnswer1(modResponse) IN
    IF modResponse.threw \/ a.threw
    THEN Proceed(NoAnswer)
    ELSE IF a.text = <<"n", "o">>
         THEN Respond(200, UrlBody(Str(PlaceholderUrl)), Answer(a.text))
         ELSE Proceed(Answer(a.text))

\* first revision
ModerationStep1(modResponse) ==
    LET a == moderationAnswer1(modResponse) IN
    IF modResponse.threw \/ a.threw
    THEN Respond(500, ErrorBody(Str(ModerationFailedMessage)), NoAnswer)
    ELSE IF a.text = <<"n", "o">>
         THEN Respond(200, UrlBody(Str(PlaceholderUrl)), Answer(a.text))
         ELSE Proceed(Answer(a.text))

\* the rejection answers but does not return
ModerationStep2_NoReturnOnNo(modResponse) ==
    LET a == moderationAnswer2(modResponse) IN
    IF modResponse.threw \/ a.threw
    THEN Respond(500, ErrorBody(Str(ModerationFailedMessage)), NoAnswer)
    ELSE Proceed(Answer(a.text))

\* second revision
ModerationStep2(modResponse) ==
    LET a == moderationAnswer2(modResponse) IN
    IF modResponse.threw \/ a.threw
    THEN Respond(500, ErrorBody(Str(ModerationFailedMessage)), NoAnswer)
    ELSE IF a.text = <<"n", "o">>
         THEN Respond(200, UrlBody(Str(PlaceholderUrl)), Answer(a.text))
         ELSE Proceed(Answer(a.text))

----------------------------------------------------------------------------
(* Image generation.  A generation response is what fetch and              *)
(* togetherResponse.json() settle with: threw (fetch rejects), or a status *)
(* and a body that is unparseable, the JSON null, or a JSON object with    *)
(* the fields `error` and `data`; an item of data stands for its url.      *)

NoData == [t |-> "undefined", items |-> <<>>]
DataList(items) == [t |-> "array", items |-> items]

GenThrew ==
    [threw |-> TRUE, status |-> 0, json |-> "unparseable", error |-> Undefined, data |-> NoData]
GenUnparseable(status) ==
    [threw |-> FALSE, status |-> status, json |-> "unparseable", error |-> Undefined, data |-> NoData]
GenNull(status) ==
    [threw |-> FALSE, status |-> status, json |-> "null", error |-> Undefined, data |-> NoData]
GenObject(status, error, data) ==
    [threw |-> FALSE, status |-> status, json |-> "object", error |-> error, data |-> data]

\* Response.ok
ok(status) == status >= 200 /\ status <= 299

InternalError == [status |-> 500, body |-> ErrorBody(Str(InternalErrorMessage))]

\* a rejected fetch answered with the generic generation message
GenerationStep1_WrongMessageOnThrow(togetherResponse) ==
    IF togetherResponse.threw
    THEN [status |-> 500, body |-> ErrorBody(Str(GenericGenerationMessage))]
    ELSE IF togetherResponse.json = "unparseable"
    THEN InternalError
    ELSE IF ~ok(togetherResponse.status)
         THEN IF togetherResponse.json = "null"
              THEN InternalError
              ELSE [status |-> togetherResponse.status,
                    body |-> ErrorBody(IF Truthy(togetherResponse.error)
                                       THEN togetherResponse.error
                                       ELSE Str(GenericGenerationMessage))]
         ELSE IF togetherResponse.json = "null"
                 \/ togetherResponse.data.t # "array"
                 \/ Len(togetherResponse.data.items) = 0
              THEN InternalError
              ELSE [status |-> 200, body |-> UrlBody(togetherResponse.data.items[1])]

\* data.url read in place of data.data[0].url
GenerationStep1_WrongField(togetherResponse) ==
    IF togetherResponse.threw \/ togetherResponse.json = "unparseable"
    THEN InternalError
    ELSE IF ~ok(togetherResponse.status)
         THEN IF togetherResponse.json = "null"
              THEN InternalError
              ELSE [status |-> togetherResponse.status,
                    body |-> ErrorBody(IF Truthy(togetherResponse.error)
                                       THEN togetherResponse.error
                                       ELSE Str(GenericGenerationMessage))]
         ELSE IF togetherResponse.json = "null"
              THEN InternalError
              ELSE [status |-> 200, body |-> UrlBody(Undefined)]

\* first revision
GenerationStep1(togetherResponse) ==
    IF togetherResponse.threw \/ togetherResponse.json = "unparseable"
    THEN InternalError
    ELSE IF ~ok(togetherResponse.status)
         THEN IF togetherResponse.json = "null"
              THEN InternalError
              ELSE [status |-> togetherResponse.status,
                    body |-> ErrorBody(IF Truthy(togetherResponse.error)
                                       THEN togetherResponse.error
                                       ELSE Str(GenericGenerationMessage))]
         ELSE IF togetherResponse.json = "null"
                 \/ togetherResponse.data.t # "array"
                 \/ Len(togetherResponse.data.items) = 0
              THEN InternalError
              ELSE [status |-> 200, body |-> UrlBody(togetherResponse.data.items[1])]

\* an optional chain (data.data?.[0]?.url) in place of the TypeError
GenerationStep2_NoItemCheck(togetherResponse) ==
    IF togetherResponse.threw \/ togetherResponse.json = "unparseable"
    THEN InternalError
    ELSE IF ~ok(togetherResponse.status)
         THEN IF togetherResponse.json = "null"
              THEN InternalError
              ELSE [status |-> togetherResponse.status,
                    body |-> ErrorBody(IF Truthy(togetherResponse.error)
                                       THEN togetherResponse.error
                                       ELSE Str(GenericGenerationMessage))]
         ELSE IF togetherResponse.json = "null"
              THEN InternalError
              ELSE IF togetherResponse.data.t # "array"
                      \/ Len(togetherResponse.data.items) = 0
                   THEN [status |-> 200, body |-> UrlBody(Undefined)]
                   ELSE [status |-> 200, body |-> UrlBody(togetherResponse.data.items[1])]

\* the upstream status is not relayed
GenerationStep2_Always500(togetherResponse) ==
    IF togetherResponse.threw \/ togetherResponse.json = "unparseable"
    THEN InternalError
    ELSE IF ~ok(togetherResponse.status)
         THEN IF togetherResponse.json = "null"
              THEN InternalError
              ELSE [status |-> 500,
                    body |-> ErrorBody(IF Truthy(togetherResponse.error)
                                       THEN togetherResponse.error
                                       ELSE Str(GenericGenerationMessage))]
         ELSE IF togetherResponse.json = "null"
                 \/ togetherResponse.data.t # "array"
                 \/ Len(togetherResponse.data.items) = 0
              THEN InternalError
              ELSE [status |-> 200, body |-> UrlBody(togetherResponse.data.items[1])]

\* second revision
GenerationStep2(togetherResponse) ==
    IF togetherResponse.threw \/ togetherResponse.json = "unparseable"
    THEN InternalError
    ELSE IF ~ok(togetherResponse.status)
         THEN IF togetherResponse.json = "null"
              THEN InternalError
              ELSE [status |-> togetherResponse.status,
                    body |-> ErrorBody(IF Truthy(togetherResponse.error)
                                       THEN togetherResponse.error
                                       ELSE Str(GenericGenerationMessage))]
         ELSE IF togetherResponse.json = "null"
                 \/ togetherResponse.data.t # "array"
                 \/ Len(togetherResponse.data.items) = 0
              THEN InternalError
              ELSE [status |-> 200, body |-> UrlBody(togetherResponse.data.items[1])]

----------------------------------------------------------------------------
(* Inputs: the prompts a request body can carry, the answers of the        *)
(* moderation call and the answers of the image-generation call.           *)

Prompts ==
    { Undefined, Str(""), Num(7), Str("a red bicycle") }

ModResponses ==
    { ModThrew,
      ModNeither,
      ModResult(<<" ", "N", "o", "\n">>),
      ModResult(<<"y", "e", "s">>),
      ModResult(<<"n", "o", ".">>),
      ModResult(<<>>),
      ModChoices(<<Text(<<"N", "O", " ">>)>>),
      ModChoices(<<Text(<<>>)>>),
      ModChoices(<<>>),
      [threw |-> FALSE, result |-> Text(<<>>),
       choices |-> ChoiceList(<<Text(<<"n", "o">>)>>)] }

GenResponses ==
    { GenThrew,
      GenUnparseable(200),
      GenUnparseable(502),
      GenObject(200, Undefined, DataList(<<Str("https://x/img.png")>>)),
      GenObject(200, Undefined, DataList(<<>>)),
      GenObject(400, Str("Invalid prompt"), NoData),
      GenObject(500, Undefined, NoData),
      GenObject(422, Obj("{message, type}"), NoData) }

----------------------------------------------------------------------------
(* State *)

VARIABLES
    revision,   \* which revision of the route is deployed: 1 or 2
    apiKey,     \* process.env.TOGETHER_API_KEY is set
    hits,       \* the limiter's store: client -> hits in the current window
    admitted,   \* history: client -> requests let through in the current window
    req         \* the requests, numbered in the order of their arrival

vars == <<revision, apiKey, hits, admitted, req>>

NoModResponse == ModNeither
NoGenResponse == GenThrew

FreshRequest ==
    [ pc |-> "idle",
      client |-> CHOOSE c \in Clients : TRUE,
      prompt |-> Undefined,
      modResponse |-> NoModResponse,
      moderationAnswer |-> NoAnswer,
      togetherResponse |-> NoGenResponse,
      status |-> 0,
      body |-> NoBody,
      sent |-> 0,
      validated |-> FALSE,
      modCalls |-> 0,
      modSettled |-> FALSE,
      genCalls |-> 0,
      genSettled |-> FALSE ]

Init ==
    /\ revision \in {1, 2}
    /\ apiKey \in BOOLEAN
    /\ hits = [c \in Clients |-> 0]
    /\ admitted = [c \in Clients |-> 0]
    /\ req = [r \in Requests |-> FreshRequest]

\* Requests and clients are named in the order of their arrival: request
\* r arrives after the requests before it, and a client that has sent no
\* request yet shows up after the clients before it in ClientOrder.
NextToArrive(r, c) ==
    /\ req[r].pc = "idle"
    /\ \A q \in Requests : q < r => req[q].pc # "idle"
    /\ \A i, j \in 1..Len(ClientOrder) :
          (i < j /\ ClientOrder[j] = c)
          => \E q \in Requests : req[q].pc # "idle" /\ req[q].client = ClientOrder[i]

----------------------------------------------------------------------------
(* Actions *)

\* the moderation client is built without looking at the API key
HandlerStart_NoKeyCheck(arrived) ==
    LET invalid == IF revision = 1 THEN InvalidPrompt1(arrived.prompt)
                                   ELSE InvalidPrompt2(arrived.prompt)
        checked == [arrived EXCEPT !.validated = TRUE]
    IN  IF invalid
        THEN [checked EXCEPT !.pc = "done", !.status = 400,
                             !.body = ErrorBody(Str(InvalidPromptMessage)),
                             !.sent = @ + 1]
        ELSE [checked EXCEPT !.pc = "moderation", !.modCalls = @ + 1]

\* The route handler up to its first await: validation, new Together()
\* (which throws, inside the moderation try, when no API key is set), and
\* the moderation call.  It yields the request's record.
HandlerStart(arrived) ==
    LET invalid == IF revision = 1 THEN InvalidPrompt1(arrived.prompt)
                                   ELSE InvalidPrompt2(arrived.prompt)
        checked == [arrived EXCEPT !.validated = TRUE]
    IN  IF invalid
        THEN [checked EXCEPT !.pc = "done", !.status = 400,
                             !.body = ErrorBody(Str(InvalidPromptMessage)),
                             !.sent = @ + 1]
        ELSE IF ~apiKey
             THEN [checked EXCEPT !.pc = "done", !.status = 500,
                                  !.body = ErrorBody(Str(ModerationFailedMessage)),
                                  !.sent = @ + 1]
             ELSE [checked EXCEPT !.pc = "moderation", !.modCalls = @ + 1]

\* one count for all the clients
Arrive_GlobalCount(r, c, prompt) ==
    /\ NextToArrive(r, c)
    /\ hits' = [d \in Clients |-> hits[d] + 1]
    /\ LET arrived == [req[r] EXCEPT !.client = c, !.prompt = prompt] IN
       IF limiterBlocks(hits'[c])
       THEN /\ req' = [req EXCEPT ![r] =
                          [arrived EXCEPT !.pc = "done", !.status = 429,
                                          !.body = TextBody(RateLimitMessage),
                                          !.sent = @ + 1]]
            /\ UNCHANGED admitted
       ELSE /\ req' = [req EXCEPT ![r] = HandlerStart(arrived)]
            /\ admitted' = [admitted EXCEPT ![c] = @ + 1]
    /\ UNCHANGED <<revision, apiKey>>

\* the route validates before the limiter counts the request
Arrive_ValidateFirst(r, c, prompt) ==
    /\ NextToArrive(r, c)
    /\ LET arrived == [req[r] EXCEPT !.client = c, !.prompt = prompt]
           started == HandlerStart(arrived)
       IN  IF started.status = 400
           THEN /\ req' = [req EXCEPT ![r] = started]
                /\ UNCHANGED <<hits, admitted>>
           ELSE /\ hits' = [hits EXCEPT ![c] = @ + 1]
                /\ IF limiterBlocks(hits'[c])
                   THEN /\ req' = [req EXCEPT ![r] =
                                      [arrived EXCEPT !.pc = "done", !.status = 429,
                                                      !.body = TextBody(RateLimitMessage),
                                                      !.sent = @ + 1]]
                        /\ UNCHANGED admitted
                   ELSE /\ req' = [req EXCEPT ![r] = started]
                        /\ admitted' = [admitted EXCEPT ![c] = @ + 1]
    /\ UNCHANGED <<revision, apiKey>>

\* A request of client c with the given prompt arrives at the route: the
\* limiter middleware runs, and calls the route handler (next()) when it
\* lets the request through.  All of it runs within one turn of the event
\* loop, up to the handler's first await.
Arrive(r, c, prompt) ==
    /\ NextToArrive(r, c)
    /\ hits' = [hits EXCEPT ![c] = @ + 1]
    /\ LET arrived == [req[r] EXCEPT !.client = c, !.prompt = prompt] IN
       IF limiterBlocks(hits'[c])
       THEN /\ req' = [req EXCEPT ![r] =
                          [arrived EXCEPT !.pc = "done", !.status = 429,
                                          !.body = TextBody(RateLimitMessage),
                                          !.sent = @ + 1]]
            /\ UNCHANGED admitted
       ELSE /\ req' = [req EXCEPT ![r] = HandlerStart(arrived)]
            /\ admitted' = [admitted EXCEPT ![c] = @ + 1]
    /\ UNCHANGED <<revision, apiKey>>

\* the end of a window takes one hit off each count
WindowReset_Decrement ==
    /\ hits' = [c \in Clients |-> IF hits[c] > 0 THEN hits[c] - 1 ELSE 0]
    /\ admitted' = [c \in Clients |-> 0]
    /\ UNCHANGED <<revision, apiKey, req>>

\* The store's window of windowMs ends: every count is reset.
WindowReset ==
    /\ hits' = [c \in Clients |-> 0]
    /\ admitted' = [c \in Clients |-> 0]
    /\ UNCHANGED <<revision, apiKey, req>>

\* The moderation call settles; the handler runs up to its next await.
ModerationSettles(r, modResponse) ==
    /\ req[r].pc = "moderation"
    /\ LET step == IF revision = 1 THEN ModerationStep1(modResponse)
                                   ELSE ModerationStep2(modResponse)
           settled == [req[r] EXCEPT !.modResponse = modResponse,
                                     !.modSettled = TRUE,
                                     !.moderationAnswer = step.answer]
       IN  req' = [req EXCEPT ![r] =
              IF step.next = "respond"
              THEN [settled EXCEPT !.pc = "done", !.status = step.status,
                                   !.body = step.body, !.sent = @ + 1]
              ELSE [settled EXCEPT !.pc = "generation", !.genCalls = @ + 1]]
    /\ UNCHANGED <<revision, apiKey, hits, admitted>>

\* The image-generation call settles; the handler runs to its end.
GenerationSettles(r, togetherResponse) ==
    /\ req[r].pc = "generation"
    /\ LET step == IF revision = 1 THEN GenerationStep1(togetherResponse)
                                   ELSE GenerationStep2(togetherResponse)
       IN  req' = [req EXCEPT ![r] =
              [req[r] EXCEPT !.togetherResponse = togetherResponse,
                             !.genSettled = TRUE,
                             !.pc = "done", !.status = step.status,
                             !.body = step.body, !.sent = @ + 1]]
    /\ UNCHANGED <<revision, apiKey, hits, admitted>>

Next ==
    \/ \E r \in Requests, c \in Clients, prompt \in Prompts : Arrive(r, c, prompt)
    \/ WindowReset
    \/ \E r \in Requests, modResponse \in ModResponses : ModerationSettles(r, modResponse)
    \/ \E r \in Requests, togetherResponse \in GenResponses : GenerationSettles(r, togetherResponse)

Spec == Init /\ [][Next]_vars

(* What the code schedules by itself: the limiter's store resets its       *)
(* counts on a timer.  The handler sets no timeout and passes no abort     *)
(* signal to either remote call, so that a call settles is up to the       *)
(* remote side and the transport.                                          *)
FairSpec == Init /\ [][Next]_vars /\ WF_vars(WindowReset)

----------------------------------------------------------------------------
(* The route handler of each revision as a function of what it reads: the  *)
(* record of a request the limiter let through (its prompt and the answers *)
(* of its remote calls).  It yields the response and the calls issued.     *)

Outcome(status, body, modCalls, genCalls) ==
    [status |-> status, body |-> body, modCalls |-> modCalls, genCalls |-> genCalls]

\* first revision
Handler1(q) ==
    IF InvalidPrompt1(q.prompt)
    THEN Outcome(400, ErrorBody(Str(InvalidPromptMessage)), 0, 0)
    ELSE IF ~apiKey
         THEN Outcome(500, ErrorBody(Str(ModerationFailedMessage)), 0, 0)
         ELSE LET m == ModerationStep1(q.modResponse) IN
              IF m.next = "respond"
              THEN Outcome(m.status, m.body, 1, 0)
              ELSE LET g == GenerationStep1(q.togetherResponse) IN
                   Outcome(g.status, g.body, 1, 1)

\* second revision
Handler2(q) ==
    IF InvalidPrompt2(q.prompt)
    THEN Outcome(400, ErrorBody(Str(InvalidPromptMessage)), 0, 0)
    ELSE IF ~apiKey
         THEN Outcome(500, ErrorBody(Str(ModerationFailedMessage)), 0, 0)
         ELSE LET m == ModerationStep2(q.modResponse) IN
              IF m.next = "respond"
              THEN Outcome(m.status, m.body, 1, 0)
              ELSE LET g == GenerationStep2(q.togetherResponse) IN
                   Outcome(g.status, g.body, 1, 1)

----------------------------------------------------------------------------
(* Vocabulary of the properties *)

Arrived(r) == req[r].pc # "idle"
Done(r) == req[r].pc = "done"

\* The text a moderation response carries, as the specification reads it:
\* the plain result string, otherwise the first choice's message content.
ExtractedText(m) ==
    IF m.result.t = "string" THEN m.result
    ELSE IF m.choices.t = "array" /\ Len(m.choices.items) >= 1
         THEN m.choices.items[1]
         ELSE NoText

\* cs is "no" up to case and surrounding whitespace
SaysNo(cs) ==
    \E i \in 1..Len(cs) :
        /\ i + 1 <= Len(cs)
        /\ cs[i] \in {"n", "N"}
        /\ cs[i + 1] \in {"o", "O"}
        /\ \A j \in 1..Len(cs) : j \notin {i, i + 1} => cs[j] \in WhiteSpace

\* the moderation call of r has answered (not raised)
ModerationAnswered(r) == req[r].modSettled /\ ~req[r].modResponse.threw

\* a body with no prompt field, a prompt that is not a string, or an empty one
BadPrompt(prompt) ==
    \/ prompt.t = "undefined"
    \/ prompt.t # "string"
    \/ prompt.t = "string" /\ prompt.s = ""

----------------------------------------------------------------------------
(* C1: a request whose moderation call returns a text equal to "no" after  *)
(* trimming and lower-casing is answered 200 with the placeholder payload  *)
(* {url: "/nonono.gif"}, and no image-generation call is issued for it.    *)
C1_NoIsPlaceholder ==
    \A r \in Requests :
        ( /\ ModerationAnswered(r)
          /\ ExtractedText(req[r].modResponse).t = "string"
          /\ SaysNo(ExtractedText(req[r].modResponse).cs) )
        => /\ Done(r)
           /\ req[r].status = 200
           /\ req[r].body = UrlBody(Str(PlaceholderUrl))
           /\ req[r].sent = 1
           /\ req[r].genCalls = 0

\* a "no" that needs trimming and lower-casing has been answered
C1_Witness ==
    \E r \in Requests :
        /\ ModerationAnswered(r)
        /\ req[r].modResponse.result = Text(<<" ", "N", "o", "\n">>)
        /\ req[r].status = 200
        /\ req[r].body.url = Str(PlaceholderUrl)

(* C2: fail open.  A request whose moderation call returns any text other  *)
(* than "no" (after trim and lower-case), the empty string included, in    *)
(* either response shape, proceeds to the image-generation call.           *)
C2_FailOpen ==
    \A r \in Requests :
        ( /\ ModerationAnswered(r)
          /\ ExtractedText(req[r].modResponse).t = "string"
          /\ ~SaysNo(ExtractedText(req[r].modResponse).cs) )
        => /\ req[r].genCalls = 1
           /\ ~(req[r].status = 500 /\ ~req[r].genSettled)

(* C3: a request whose moderation call raises is answered 500 with the     *)
(* fixed moderation-failure message, and no image-generation call is       *)
(* issued for it.                                                          *)
C3_ModerationTransportError ==
    \A r \in Requests :
        (req[r].modSettled /\ req[r].modResponse.threw)
        => /\ Done(r)
           /\ req[r].status = 500
           /\ req[r].body = ErrorBody(Str(ModerationFailedMessage))
           /\ req[r].sent = 1
           /\ req[r].genCalls = 0

C3_Witness ==
    \E r \in Requests :
        /\ req[r].modSettled
        /\ req[r].modResponse.threw
        /\ req[r].modCalls = 1
        /\ req[r].status = 500

(* C4: rate gate.  In a window at most one request of a client is let      *)
(* through, the first one, also while an earlier request of the client is  *)
(* still awaiting a remote call; every request that is not let through is  *)
(* answered 429 with the fixed message and runs no validation, moderation  *)
(* or generation.                                                          *)
C4_RateGate ==
    /\ \A c \in Clients :
          /\ admitted[c] <= 1
          /\ hits[c] >= 1 => admitted[c] = 1
    /\ \A r \in Requests :
          Arrived(r) =>
             /\ req[r].status = 429 <=> ~req[r].validated
             /\ req[r].status = 429 =>
                   /\ Done(r)
                   /\ req[r].body = TextBody(RateLimitMessage)
                   /\ req[r].sent = 1
                   /\ req[r].modCalls = 0
                   /\ req[r].genCalls = 0

\* a second request of a client is turned away while the first is in flight
C4_Witness ==
    \E r1, r2 \in Requests :
        /\ r1 # r2
        /\ req[r1].client = req[r2].client
        /\ req[r1].pc = "moderation"
        /\ req[r2].status = 429
        /\ hits[req[r1].client] = 2

C6_Original ==
    \A r \in Requests :
        (Arrived(r) /\ BadPrompt(req[r].prompt))
        => /\ req[r].status # 429
           /\ req[r].validated

(* C6, amended: the rate gate comes before validation.  Every arriving     *)
(* request, whatever its prompt, is counted against its client's window;   *)
(* it is validated exactly when it is the first of its client in the       *)
(* window, and is answered 429 without validation otherwise.               *)
C6_GateBeforeValidation ==
    [][ \A r \in Requests :
          (req[r].pc = "idle" /\ req'[r].pc # "idle")
          => LET c == req'[r].client IN
             /\ hits'[c] = hits[c] + 1
             /\ req'[r].validated <=> hits[c] = 0
             /\ ~req'[r].validated => req'[r].status = 429 ]_vars

\* a request with an invalid prompt used up its client's admission: the
\* client's next request, with a valid prompt, is turned away
C6_Witness ==
    \E r1, r2 \in Requests :
        /\ r1 < r2
        /\ req[r1].client = req[r2].client
        /\ BadPrompt(req[r1].prompt)
        /\ req[r1].status = 400
        /\ ~BadPrompt(req[r2].prompt)
        /\ req[r2].status = 429

(* C7: a request that passed moderation and whose generation call returns  *)
(* a success status with one result item is answered 200 with the body     *)
(* {url: <the item's url>}.                                                *)
C7_RelayUrl ==
    \A r \in Requests :
        ( /\ req[r].genSettled
          /\ ~req[r].togetherResponse.threw
          /\ req[r].togetherResponse.status \in 200..299
          /\ req[r].togetherResponse.json = "object"
          /\ req[r].togetherResponse.data.t = "array"
          /\ Len(req[r].togetherResponse.data.items) = 1 )
        => /\ Done(r)
           /\ req[r].status = 200
           /\ req[r].body = UrlBody(req[r].togetherResponse.data.items[1])
           /\ req[r].sent = 1

\* the round trip: "a red bicycle", "yes", {data: [{url: "https://x/img.png"}]}
C7_Witness ==
    \E r \in Requests :
        /\ req[r].prompt = Str("a red bicycle")
        /\ req[r].modResponse = ModResult(<<"y", "e", "s">>)
        /\ req[r].genSettled
        /\ req[r].togetherResponse =
              GenObject(200, Undefined, DataList(<<Str("https://x/img.png")>>))
        /\ req[r].status = 200
        /\ req[r].body = UrlBody(Str("https://x/img.png"))

\* the message the upstream body carries, the generic one when it has none
RelayedMessage(g) ==
    IF g.error.t \notin {"undefined", "null"} /\ g.error # Str("")
    THEN g.error
    ELSE Str(GenericGenerationMessage)

(* C8 as stated: every generation call that returns a non-success status   *)
(* is answered with that status and {error: m}, m the message of the       *)
(* upstream body, the generic message when the body carries none.          *)
C8_Original ==
    \A r \in Requests :
        ( /\ req[r].genSettled
          /\ ~req[r].togetherResponse.threw
          /\ req[r].togetherResponse.status \notin 200..299 )
        => /\ req[r].status = req[r].togetherResponse.status
           /\ req[r].body = ErrorBody(RelayedMessage(req[r].togetherResponse))

(* C8, amended: every generation call that returns a non-success status    *)
(* and a body that parses as JSON (other than null) is answered with that  *)
(* status and {error: m}, m the error of the upstream body, the generic    *)
(* message "Error generating image." when the body carries none.           *)
C8_RelayUpstreamError ==
    \A r \in Requests :
        ( /\ req[r].genSettled
          /\ ~req[r].togetherResponse.threw
          /\ req[r].togetherResponse.status \notin 200..299
          /\ req[r].togetherResponse.json = "object" )
        => /\ Done(r)
           /\ req[r].status = req[r].togetherResponse.status
           /\ req[r].body = ErrorBody(RelayedMessage(req[r].togetherResponse))
           /\ req[r].sent = 1

\* an upstream 400 with a message has been relayed
C8_Witness ==
    \E r \in Requests :
        /\ req[r].genSettled
        /\ req[r].togetherResponse = GenObject(400, Str("Invalid prompt"), NoData)
        /\ req[r].status = 400
        /\ req[r].body = ErrorBody(Str("Invalid prompt"))

\* the verdict text of r is the trimmed, lower-cased v, and the handler
\* acted on it
VerdictIs(r, v) ==
    /\ v.t = "string"
    /\ req[r].moderationAnswer = Answer(toLowerCase(trim(v.cs)))

(* C9: the moderation parser accepts both shapes.  A plain result string   *)
(* is the verdict text; otherwise the first choice's message content is;   *)
(* when the response has neither, the request is answered 500 with the     *)
(* moderation-failure message and no image-generation call is issued.      *)
C9_BothShapes ==
    \A r \in Requests :
        ModerationAnswered(r) =>
            LET m == req[r].modResponse IN
            IF m.result.t = "string"
            THEN VerdictIs(r, m.result)
            ELSE IF m.choices.t = "array" /\ Len(m.choices.items) >= 1
                 THEN VerdictIs(r, m.choices.items[1])
                 ELSE m.choices.t = "undefined"
                      => /\ req[r].status = 500
                         /\ req[r].body = ErrorBody(Str(ModerationFailedMessage))
                         /\ req[r].genCalls = 0

\* the handler's verdict is an approval
Approved(q) ==
    /\ q.modCalls = 1
    /\ q.modSettled
    /\ ~q.modResponse.threw
    /\ q.moderationAnswer.set
    /\ q.moderationAnswer.text # <<"n", "o">>

(* C10: a request sends exactly one response and then ends: at most one    *)
(* moderation call and one generation call are issued for it, the          *)
(* generation call only after the moderation call answered with an         *)
(* approval, and a finished request issues nothing more (no retry).        *)
C10_OneResponseNoRetry ==
    [][ \A r \in Requests :
          /\ req'[r].sent <= 1
          /\ req'[r].pc = "done" <=> req'[r].sent = 1
          /\ req'[r].modCalls <= 1
          /\ req'[r].genCalls <= 1
          /\ req'[r].genCalls = 1 => Approved(req'[r])
          /\ req[r].pc = "done" => req'[r] = req[r] ]_vars

\* one request failed at the moderation step and was not retried, another
\* went through both calls
C10_Witness ==
    \E r1, r2 \in Requests :
        /\ req[r1].pc = "done"
        /\ req[r1].modSettled /\ req[r1].modResponse.threw
        /\ req[r1].modCalls = 1 /\ req[r1].genCalls = 0 /\ req[r1].sent = 1
        /\ req[r2].pc = "done"
        /\ req[r2].genSettled /\ req[r2].togetherResponse.threw
        /\ req[r2].modCalls = 1 /\ req[r2].genCalls = 1 /\ req[r2].sent = 1

(* C11: in every terminal state of a request the body is a JSON object   *)
(* that has either an error field whose value is a string or the field     *)
(* url; it is never plain text and never a provider's error object.        *)
C11_JsonErrorOrUrl ==
    \A r \in Requests :
        Done(r) =>
            /\ req[r].body.kind = "json"
            /\ \/ req[r].body.error.t = "string" /\ req[r].body.url = Undefined
               \/ req[r].body.error = Undefined /\ req[r].body.url.t = "string"

C13_GenerationTransportError ==
    \A r \in Requests :
        (req[r].genSettled /\ req[r].togetherResponse.threw)
        => /\ Done(r)
           /\ req[r].status = 500
           /\ req[r].body = ErrorBody(Str(InternalErrorMessage))
           /\ req[r].sent = 1

C13_Witness ==
    \E r \in Requests :
        /\ req[r].genSettled
        /\ req[r].togetherResponse.threw
        /\ req[r].genCalls = 1
        /\ req[r].moderationAnswer = Answer(<<"y", "e", "s">>)
        /\ req[r].status = 500

InFlight(r) == req[r].pc \in {"moderation", "generation"}

(* C15: every request let through the rate gate eventually reaches a       *)
(* terminal response: a remote call that never answers expires and is      *)
(* answered 500, so no request stays suspended forever.                    *)
C15_EveryRequestAnswered ==
    \A r \in Requests : InFlight(r) ~> Done(r)

(* C16: requests of different clients are independent.  A step of a        *)
(* request changes the record of no other request and the count of no      *)
(* other client; whether an arriving request is let through depends on     *)
(* the count of its own client alone; and the count of its client, at its  *)
(* arrival, is the only state outside its record that a request changes.   *)
C16_ClientsIndependent ==
    [][ \A r \in Requests :
          req'[r] # req[r]
          => /\ \A q \in Requests : q # r => req'[q] = req[q]
             /\ \A d \in Clients : d # req'[r].client => hits'[d] = hits[d]
             /\ req[r].pc = "idle"
                => (req'[r].status = 429 <=> hits[req'[r].client] >= 1)
             /\ req[r].pc # "idle" => hits' = hits
             /\ revision' = revision
             /\ apiKey' = apiKey ]_vars

\* a request of one client is in flight, and a request of another client
\* has been let through in the same window
C16_Witness ==
    \E r1, r2 \in Requests :
        /\ req[r1].client # req[r2].client
        /\ req[r1].pc = "moderation"
        /\ Arrived(r2) /\ req[r2].validated
        /\ hits[req[r1].client] = 1
        /\ hits[req[r2].client] = 1

(* C17: the rate gate does not block a client forever.  The end of a       *)
(* window resets the count of every client, whatever it was, and a         *)
(* request that arrives when the count of its client is reset is let       *)
(* through.                                                                *)
C17_WindowResets ==
    [][ /\ (req' = req /\ hits' # hits) => \A c \in Clients : hits'[c] = 0
        /\ \A r \in Requests :
              (req[r].pc = "idle" /\ req'[r].pc # "idle" /\ hits[req'[r].client] = 0)
              => req'[r].validated /\ req'[r].status # 429 ]_vars

\* two requests of one client have both been let through: the second one
\* in a later window
C17_Witness ==
    \E r1, r2 \in Requests :
        /\ r1 < r2
        /\ req[r1].client = req[r2].client
        /\ req[r1].validated
        /\ req[r2].validated
        /\ hits[req[r2].client] = 1

\* the response of r and the remote calls issued for it
Observed(r) ==
    Outcome(req[r].status, req[r].body, req[r].modCalls, req[r].genCalls)

Malformed(g) ==
    /\ ~g.threw
    /\ \/ g.json = "unparseable"
       \/ /\ g.status \in 200..299
          /\ g.json = "object"
          /\ (g.data.t # "array" \/ Len(g.data.items) = 0)

(* C19: a malformed image-generation answer never escapes the handler: a   *)
(* body that is not JSON, whatever the status, or a success without a      *)
(* first result item is answered 500 {error: "Internal Server Error"},     *)
(* and exactly one response is sent.                                       *)
C19_MalformedGeneration ==
    \A r \in Requests :
        (req[r].genSettled /\ Malformed(req[r].togetherResponse))
        => /\ Done(r)
           /\ req[r].status = 500
           /\ req[r].body = ErrorBody(Str(InternalErrorMessage))
           /\ req[r].sent = 1

\* a success without a result item and a 502 that is not JSON have both
\* been answered 500
C19_Witness ==
    \E r1, r2 \in Requests :
        /\ req[r1].genSettled
        /\ req[r1].togetherResponse = GenObject(200, Undefined, DataList(<<>>))
        /\ req[r1].status = 500
        /\ req[r2].genSettled
        /\ req[r2].togetherResponse = GenUnparseable(502)
        /\ req[r2].status = 500

====
